---- MODULE Spec2Model ----
(***************************************************************************)
(* A model of briansorahan/iowa (main.go): selection of seed URLs from the *)
(* catalog, scraping of a seed page for audio links, and the concurrent    *)
(* fetch-and-store pipeline (errgroup + one unbuffered channel).           *)
(*                                                                         *)
(* Go strings are sequences of one-character strings, so that HasPrefix,   *)
(* HasSuffix, slicing and url.Parse are computed on the characters.        *)
(***************************************************************************)
EXTENDS Integers, Sequences, FiniteSets, TLC

----------------------------------------------------------------------------
(* Bounds of the model. *)

\* Most anchors on one scraped page in Spec (so at most MaxLinks fetcher/writer pairs).
MaxLinks == 2

\* Most anchors on one scraped page in SpecScrape.
MaxAnchors == 2

\* Most links in one fetch call in SpecFetch.
MaxFetch == 2

\* Most seed URLs in one section list of a catalog in SpecUrls.
MaxPerSection == 2

----------------------------------------------------------------------------
(* Strings. *)

HasPrefix(s, p) == Len(s) >= Len(p) /\ SubSeq(s, 1, Len(p)) = p

HasSuffix(s, p) == Len(s) >= Len(p) /\ SubSeq(s, Len(s) - Len(p) + 1, Len(s)) = p

\* s[n:] of Go, n counted from 0.
SliceFrom(s, n) == SubSeq(s, n + 1, Len(s))

(* The element of a one-element set.  Only({F(x) : x \in {e}}) is F(e) with *)
(* e evaluated once, however often F uses its argument.                     *)
Only(S) == CHOOSE x \in S : TRUE

\* Index (from 1) of the first character of s that is in cs, or 0.
IndexAny(s, cs) ==
    IF \E k \in 1..Len(s) : s[k] \in cs
    THEN CHOOSE k \in 1..Len(s) : s[k] \in cs /\ \A j \in 1..(k - 1) : s[j] \notin cs
    ELSE 0

\* Index (from 1) of the last "/" of s, or 0.
LastSlash(s) ==
    IF \E k \in 1..Len(s) : s[k] = "/"
    THEN CHOOSE k \in 1..Len(s) : s[k] = "/" /\ \A j \in (k + 1)..Len(s) : s[j] # "/"
    ELSE 0

\* before, _, _ := strings.Cut(s, c)
CutBefore(s, c) == Only({IF k = 0 THEN s ELSE SubSeq(s, 1, k - 1) : k \in {IndexAny(s, {c})}})

HexDigits == {"0", "1", "2", "3", "4", "5", "6", "7", "8", "9",
              "a", "b", "c", "d", "e", "f", "A", "B", "C", "D", "E", "F"}

SchemeHTTP == <<"h", "t", "t", "p", ":", "/", "/">>
DotDotSlash == <<".", ".", "/">>
SuffixAif == <<".", "a", "i", "f">>
SuffixAiff == <<".", "a", "i", "f", "f">>
SuffixWav == <<".", "w", "a", "v">>

\* IsAudioFile: the string ends with .aif or .aiff or .wav.
IsAudioFile(s) == HasSuffix(s, SuffixAif) \/ HasSuffix(s, SuffixAiff) \/ HasSuffix(s, SuffixWav)

(* net/url.Parse on the URLs the program builds ("http://" + host + "/" +  *)
(* val) and on the seed URLs: the fragment is cut at the first "#", the    *)
(* query at the first "?", the authority runs to the next "/", the rest is *)
(* the path.  A "%" that does not start a %XX escape is an error.  (No     *)
(* input of the model holds a well-formed escape, so no decoding is        *)
(* modelled.)                                                              *)
BadEscape(s) ==
    \E k \in 1..Len(s) :
        /\ s[k] = "%"
        /\ ~(k + 2 <= Len(s) /\ s[k + 1] \in HexDigits /\ s[k + 2] \in HexDigits)

NoURL == [ok |-> FALSE, Host |-> <<>>, Path |-> <<>>]

\* The authority and the path of what follows "http://".
ParseAuthority(rest) ==
    Only({IF BadEscape(host) \/ BadEscape(SliceFrom(rest, Len(host)))
          THEN NoURL
          ELSE [ok |-> TRUE, Host |-> host, Path |-> SliceFrom(rest, Len(host))] :
              host \in {CutBefore(rest, "/")}})

ParseURL(s) ==
    Only({IF ~HasPrefix(u, SchemeHTTP) THEN NoURL ELSE ParseAuthority(SliceFrom(u, Len(SchemeHTTP))) :
              u \in {CutBefore(noFrag, "?") : noFrag \in {CutBefore(s, "#")}}})

\* path.Dir on the local paths of the model: all but the last element, "." if there is none.
Dir(p) ==
    Only({IF k = 0 THEN <<".">> ELSE IF k = 1 THEN <<"/">> ELSE SubSeq(p, 1, k - 1) :
              k \in {LastSlash(p)}})

\* u.Path[1:] of contentWriter: the local path a download is written to.
LocalPath(location) == Only({SliceFrom(u.Path, 1) : u \in {ParseURL(location)}})

----------------------------------------------------------------------------
(* Errors.  An error is a record; Nil is Go's nil error.  ctx holds the     *)
(* contexts errors.Wrap has put around it, outermost first.                 *)

Nil == [msg |-> "", url |-> <<>>, name |-> "", code |-> 0, ctx |-> <<>>]

Err(msg, url, name, code) == [msg |-> msg, url |-> url, name |-> name, code |-> code, ctx |-> <<>>]

\* errors.Wrap: nil stays nil.
Wrap(e, context) == IF e = Nil THEN Nil ELSE [e EXCEPT !.ctx = <<context>> \o @]

\* All the orders a Go map iteration (or any set) can be walked in.
Orderings(S) ==
    {s \in [1..Cardinality(S) -> S] : \A i, j \in 1..Cardinality(S) : i # j => s[i] # s[j]}

----------------------------------------------------------------------------
(* App.urls: the seed URLs selected by era and section.  The result is the  *)
(* set of values the call can return: ranging over a Go map visits its keys *)
(* in an unspecified order.                                                 *)

\* out = urls for out = append(out, urls...): the last section's list alone.
AppendSections_Last(sections, order) ==
    IF order = <<>> THEN <<>> ELSE sections[order[Len(order)]]

RECURSIVE AppendSections(_, _)
AppendSections(sections, order) ==
    IF order = <<>> THEN <<>>
    ELSE sections[Head(order)] \o AppendSections(sections, Tail(order))

RECURSIVE AppendEras(_, _, _)
AppendEras(samples, eraOrder, secOrder) ==
    IF eraOrder = <<>> THEN <<>>
    ELSE AppendSections(samples[Head(eraOrder)], secOrder[Head(eraOrder)])
            \o AppendEras(samples, Tail(eraOrder), secOrder)

SectionOrders(samples) ==
    {f \in [DOMAIN samples -> UNION {Orderings(DOMAIN samples[e]) : e \in DOMAIN samples}] :
        \A e \in DOMAIN samples : f[e] \in Orderings(DOMAIN samples[e])}

\* A test that takes every section, the empty one too, as given.
SectionGiven_Always(section) == TRUE

\* len(app.Section) > 0
SectionGiven(section) == section # ""

urls(samples, era, section) ==
    IF era # "all"
    THEN IF era \notin DOMAIN samples
         THEN {[out |-> <<>>, err |-> Err("unsupported era: ", <<>>, era, 0)]}
         ELSE IF SectionGiven(section)
              THEN IF section \notin DOMAIN samples[era]
                   THEN {[out |-> <<>>, err |-> Err("unsupported section: ", <<>>, section, 0)]}
                   ELSE {[out |-> samples[era][section], err |-> Nil]}
              ELSE {[out |-> AppendSections(samples[era], order), err |-> Nil] :
                        order \in Orderings(DOMAIN samples[era])}
    ELSE {[out |-> AppendEras(samples, eraOrder, secOrder), err |-> Nil] :
              eraOrder \in Orderings(DOMAIN samples), secOrder \in SectionOrders(samples)}

\* A NewConfig that takes the flags as they are.
NewConfig_Unvalidated(samples, era, section) == Nil

\* NewConfig's validation of the flags against the catalog.
NewConfig(samples, era, section) ==
    IF era # "all"
    THEN IF era \notin DOMAIN samples
         THEN Err("unsupported era: ", <<>>, era, 0)
         ELSE IF section # "" /\ section \notin DOMAIN samples[era]
              THEN Err("unsupported section: ", <<>>, section, 0)
              ELSE Nil
    ELSE Nil

----------------------------------------------------------------------------
(* App.scrape, after the GET: the anchors of the parsed page are walked in  *)
(* order, each anchor's attributes in order; dm is the map used as a set.   *)

\* StatusMultipleChoices of net/http.
StatusMultipleChoices == 300

\* A strip of every leading "../", not of one.
RECURSIVE StripParent_All(_)
StripParent_All(val) ==
    IF HasPrefix(val, DotDotSlash) THEN StripParent_All(SliceFrom(val, 3)) ELSE val

\* strings.HasPrefix(attr.Val, "../") => attr.Val[3:]
StripParent(val) == IF HasPrefix(val, DotDotSlash) THEN SliceFrom(val, 3) ELSE val

Resolve(host, val) == SchemeHTTP \o host \o <<"/">> \o StripParent(val)

\* The test of the inner loop: the attribute is kept.
KeepAttr(attr) == ~(attr.Key # "href" \/ ~IsAudioFile(attr.Val))

RECURSIVE ScrapeAttrs(_, _, _)
ScrapeAttrs(attrs, host, dm) ==
    IF attrs = <<>> THEN dm
    ELSE ScrapeAttrs(Tail(attrs), host,
                     IF KeepAttr(Head(attrs))
                     THEN dm \cup {Resolve(host, Head(attrs).Val)}
                     ELSE dm)

RECURSIVE ScrapeLinks(_, _, _)
ScrapeLinks(links, host, dm) ==
    IF links = <<>> THEN dm
    ELSE ScrapeLinks(Tail(links), host, ScrapeAttrs(Head(links), host, dm))

(* The values scrape(url) can return for a GET answered by resp:            *)
(* resp.transport is a failed GET (err # nil), resp.readerr a body that     *)
(* html.Parse cannot read to its end; resp.status is not looked at.  The    *)
(* slice is built by ranging over dm, so in any order.                      *)
scrape(url, resp) ==
    IF resp.transport \/ ~ParseURL(url).ok
    THEN {[out |-> <<>>, err |-> Wrap(Err("Get", url, "", 0), "fetching")]}
    ELSE IF resp.readerr
    THEN {[out |-> <<>>, err |-> Wrap(Err("read", url, "", 0), "parsing html")]}
    ELSE {[out |-> o, err |-> Nil] :
              o \in Orderings(ScrapeLinks(resp.page, ParseURL(url).Host, {}))}

----------------------------------------------------------------------------
(* The inputs of the model: the web and the catalogs.                       *)

Str_a_wav == <<"a", ".", "w", "a", "v">>
Str_up_a_wav == DotDotSlash \o Str_a_wav
Str_d_b_aiff == <<"d", "/", "b", ".", "a", "i", "f", "f">>
Str_c_txt == <<"c", ".", "t", "x", "t">>

SeedP == SchemeHTTP \o <<"h", "/", "p">>
SeedQ == SchemeHTTP \o <<"h", "/", "q">>
SeedR == SchemeHTTP \o <<"g", "/", "r">>

Href(val) == <<[Key |-> "href", Val |-> val]>>

\* The anchors a page of Spec is made of.
SpecAnchors == {Href(Str_a_wav), Href(Str_up_a_wav), Href(Str_d_b_aiff), Href(Str_c_txt)}

\* The anchors a page of SpecScrape is made of.
ScrapeAnchors ==
    {Href(Str_a_wav), Href(Str_up_a_wav), Href(DotDotSlash \o Str_up_a_wav),
     Href(Str_d_b_aiff), Href(Str_c_txt),
     Href(<<"d", ".", "A", "I", "F">>), Href(<<"e", ".", "a", "i", "f">>),
     Href(Str_a_wav \o <<"#">> \o SuffixWav), Href(<<"%">> \o SuffixWav),
     <<[Key |-> "name", Val |-> Str_a_wav]>>,
     <<[Key |-> "name", Val |-> Str_c_txt], [Key |-> "href", Val |-> Str_d_b_aiff]>>,
     <<>>}

\* The audio links fetch is called with in SpecFetch; their local paths differ.
FetchLinks ==
    {Resolve(<<"h">>, Str_d_b_aiff), Resolve(<<"h">>, Str_a_wav),
     Resolve(<<"h">>, <<"e", ".", "a", "i", "f">>)}

\* Two links that differ in the fragment alone, so that they have one local path.
CollidingLinks ==
    {Resolve(<<"h">>, Str_a_wav), Resolve(<<"h">>, Str_a_wav \o <<"#">> \o SuffixWav)}

SeqsUpTo(S, n) == UNION {[1..k -> S] : k \in 0..n}

\* The statuses a GET is answered with.
StatusCodes == {200, 300, 404}

\* The answers to the GET of a seed page.
Responses(anchors, n) ==
    {[transport |-> TRUE, readerr |-> FALSE, status |-> 0, page |-> <<>>],
     [transport |-> FALSE, readerr |-> TRUE, status |-> 200, page |-> <<>>]}
    \cup {[transport |-> FALSE, readerr |-> FALSE, status |-> c, page |-> pg] :
              c \in {200, 404}, pg \in SeqsUpTo(anchors, n)}

\* The catalog of Spec: era -> section -> seed URLs.
SpecCatalogs == {("pre" :> ("brass" :> <<SeedP>>) @@ "post" :> ("brass" :> <<SeedQ>>))}

\* The -e and -s flags of Spec.
SpecFlags ==
    {[Era |-> "all", Section |-> ""], [Era |-> "all", Section |-> "bogus"],
     [Era |-> "pre", Section |-> "brass"], [Era |-> "pre", Section |-> "bogus"],
     [Era |-> "bogus", Section |-> ""]}

\* What the server sends for an audio URL, and what a file holds.
Body(url) == [of |-> url, part |-> "all"]
Partial(url) == [of |-> url, part |-> "some"]
Empty == [of |-> <<>>, part |-> "none"]

----------------------------------------------------------------------------
(* The state.                                                               *)

VARIABLES
    Samples, Era, Section, Download,  \* Config
    mpc,        \* where the main goroutine is
    exit,       \* the process's end: [code, err, stdout]
    todo,       \* download: the seed URLs the range loop has not finished
    downloads,  \* fetch: its argument
    fpc, wpc,   \* fetch: where each contentFetcher / contentWriter goroutine is
    item,       \* the Download a writer has received from dc
    wurl,       \* wurl[w]: the u of writer w, the parsed location
    cancelled,  \* gctx.Done() is closed
    gerr,       \* the errgroup's err
    stream,     \* stream[i]: the resp.Body of fetcher i: "none", "open", "closed"
    fh,         \* fh[w]: the file f of writer w: "none", "open", "closed"
    files,      \* the file system: local path -> content
    dirs,       \* the directories MkdirAll was asked for and made
    status,     \* history: the status of each fetcher's GET (0: none yet)
    wfail,      \* history: the operation each writer failed in ("" if none)
    failures,   \* history: the errors the tasks returned, in the order they returned
    made,       \* history: the local paths os.Create made in this fetch call
    scrapes,    \* history: download's scrape calls, [seed, status, err]
    rets,       \* history: the values the fetch calls returned
    urlsRes,    \* history: what the urls() call returned
    scrapeCall  \* SpecScrape: a scrape call on its own, [url, resp, res]

cfgVars == <<Samples, Era, Section, Download>>
groupVars == <<downloads, fpc, wpc, item, wurl, cancelled, gerr, stream, fh, status, wfail, failures, made>>
fsVars == <<files, dirs>>
vars == <<Samples, Era, Section, Download, mpc, exit, todo, downloads, fpc, wpc, item, wurl,
          cancelled, gerr, stream, fh, files, dirs, status, wfail, failures, made,
          scrapes, rets, urlsRes, scrapeCall>>

Running == [code |-> -1, err |-> Nil, stdout |-> <<>>]
NoItem == [Content |-> 0, Location |-> <<>>]
NoRes == [out |-> <<>>, err |-> Nil]
NoResp == [transport |-> FALSE, readerr |-> FALSE, status |-> 0, page |-> <<>>]
NoCall == [url |-> <<>>, resp |-> NoResp, res |-> NoRes]

N == Len(downloads)

InitRest ==
    /\ exit = Running
    /\ todo = <<>>
    /\ downloads = <<>>
    /\ fpc = <<>>
    /\ wpc = <<>>
    /\ item = <<>>
    /\ wurl = <<>>
    /\ cancelled = FALSE
    /\ gerr = Nil
    /\ stream = <<>>
    /\ fh = <<>>
    /\ files = <<>>
    /\ dirs = {}
    /\ status = <<>>
    /\ wfail = <<>>
    /\ failures = <<>>
    /\ made = {}
    /\ scrapes = <<>>
    /\ rets = <<>>
    /\ urlsRes = NoRes

\* The process as main() starts: the flags as given, the catalog as built.
Init ==
    /\ Samples \in SpecCatalogs
    /\ \E f \in SpecFlags : Era = f.Era /\ Section = f.Section
    /\ Download \in BOOLEAN
    /\ mpc = "main"
    /\ scrapeCall = NoCall
    /\ InitRest

----------------------------------------------------------------------------
(* main, Run, list, download.                                               *)

Exit(code, e, out) ==
    /\ mpc' = "exit"
    /\ exit' = [code |-> code, err |-> e, stdout |-> out]

\* main: NewConfig (the flags are validated), NewApp; log.Fatal on an error.
Main ==
    /\ mpc = "main"
    /\ IF NewConfig(Samples, Era, Section) # Nil
       THEN Exit(1, Wrap(NewConfig(Samples, Era, Section), "parsing config"), <<>>)
       ELSE mpc' = "run" /\ UNCHANGED exit
    /\ UNCHANGED <<cfgVars, todo, groupVars, fsVars, scrapes, rets, urlsRes, scrapeCall>>

\* Run with Download unset: list encodes the selected seed URLs to stdout.
list ==
    /\ mpc = "run"
    /\ ~Download
    /\ \E r \in urls(Samples, Era, Section) :
        /\ urlsRes' = r
        /\ IF r.err # Nil
           THEN Exit(1, Wrap(r.err, "getting urls"), <<>>)
           ELSE Exit(0, Nil, r.out)
    /\ UNCHANGED <<cfgVars, todo, groupVars, fsVars, scrapes, rets, scrapeCall>>

\* Run with Download set: download, up to the start of its loop.
download ==
    /\ mpc = "run"
    /\ Download
    /\ \E r \in urls(Samples, Era, Section) :
        /\ urlsRes' = r
        /\ IF r.err # Nil
           THEN Exit(1, Wrap(r.err, "getting urls"), <<>>) /\ UNCHANGED todo
           ELSE mpc' = "loop" /\ todo' = r.out /\ UNCHANGED exit
    /\ UNCHANGED <<cfgVars, groupVars, fsVars, scrapes, rets, scrapeCall>>

\* download: the range loop is over, download returns nil.
downloadReturn ==
    /\ mpc = "loop"
    /\ todo = <<>>
    /\ Exit(0, Nil, <<>>)
    /\ UNCHANGED <<cfgVars, todo, groupVars, fsVars, scrapes, rets, urlsRes, scrapeCall>>

\* download: one iteration's app.scrape(ctx, url) and the test of its error.
Scrape(anchors, n) ==
    /\ mpc = "loop"
    /\ todo # <<>>
    /\ \E resp \in Responses(anchors, n) :
        \E r \in scrape(Head(todo), resp) :
            /\ scrapes' = Append(scrapes, [seed |-> Head(todo), status |-> resp.status, err |-> r.err])
            /\ IF r.err # Nil
               THEN Exit(1, Wrap(r.err, "scraping audio file URL's"), <<>>)
                    /\ UNCHANGED downloads
               ELSE mpc' = "fetch" /\ downloads' = r.out /\ UNCHANGED exit
    /\ UNCHANGED <<cfgVars, todo, fpc, wpc, item, wurl, cancelled, gerr, stream, fh, status,
                   wfail, failures, made, fsVars, rets, urlsRes, scrapeCall>>

----------------------------------------------------------------------------
(* fetch: the errgroup, the channel dc and the 2N goroutines.               *)

AllDone == \A i \in 1..N : fpc[i] = "done" /\ wpc[i] = "done"

\* fetch, up to g.Wait(): dc and the group are made, every goroutine is started.
fetch ==
    /\ mpc = "fetch"
    /\ mpc' = "wait"
    /\ fpc' = [i \in 1..N |-> "get"]
    /\ wpc' = [i \in 1..N |-> "select"]
    /\ item' = [i \in 1..N |-> NoItem]
    /\ wurl' = [i \in 1..N |-> NoURL]
    /\ stream' = [i \in 1..N |-> "none"]
    /\ fh' = [i \in 1..N |-> "none"]
    /\ status' = [i \in 1..N |-> 0]
    /\ wfail' = [i \in 1..N |-> ""]
    /\ cancelled' = FALSE
    /\ gerr' = Nil
    /\ failures' = <<>>
    /\ made' = {}
    /\ UNCHANGED <<cfgVars, exit, todo, downloads, fsVars, scrapes, rets, urlsRes, scrapeCall>>

\* A group that keeps the last error, not the first.
KeepFirst_Last(kept, e) == IF e # Nil THEN e ELSE kept

\* errgroup's errOnce: the error the group keeps when a task returns e.
KeepFirst(kept, e) == IF kept = Nil THEN e ELSE kept

\* The end of a goroutine started by g.Go: a non-nil error is kept once, and cancels gctx.
GoReturn(e) ==
    /\ gerr' = KeepFirst(gerr, e)
    /\ cancelled' = (cancelled \/ e # Nil)
    /\ failures' = IF e # Nil THEN Append(failures, e) ELSE failures

\* A wait that covers the fetchers alone (the writers started with go, not g.Go).
WaitOver_FetchersOnly == \A i \in 1..N : fpc[i] = "done"

\* The wait of g.Wait(): every goroutine of the group has ended.
WaitOver == AllDone

\* A download that drops fetch's error.
FetchFailed_Ignored(e) == FALSE

\* download, line 130: the test of fetch's error.
FetchFailed(e) == e # Nil

\* g.Wait() returns (it cancels gctx), fetch returns and download tests the error.
Wait ==
    /\ mpc = "wait"
    /\ WaitOver
    /\ cancelled' = TRUE
    /\ rets' = Append(rets, gerr)
    /\ IF FetchFailed(gerr)
       THEN Exit(1, Wrap(gerr, "fetching audio files"), <<>>) /\ UNCHANGED todo
       ELSE mpc' = "loop" /\ todo' = Tail(todo) /\ UNCHANGED exit
    /\ UNCHANGED <<cfgVars, downloads, fpc, wpc, item, wurl, gerr, stream, fh, status, wfail,
                   failures, made, fsVars, scrapes, urlsRes, scrapeCall>>

\* The test with > for >=.
StatusFails_Above(code) == code > StatusMultipleChoices

\* A fetcher without the status test.
StatusFails_Never(code) == FALSE

\* resp.StatusCode >= http.StatusMultipleChoices
StatusFails(code) == code >= StatusMultipleChoices

\* A fetcher that goes on without the test of the GET's error.
GetFailed_Never(c) == FALSE

\* resp, err := http.Get(download); err != nil.  The answer 0 is no response.
GetFailed(c) == c = 0

(* contentFetcher, lines 60-68: the GET and the tests of its result.  The   *)
(* answer 0 is a GET that returns an error (no response): panic(err) ends   *)
(* the process.  A URL that url.Parse rejects makes http.Get return one.    *)
FetcherGet(i) ==
    /\ mpc = "wait"
    /\ fpc[i] = "get"
    /\ \E parses \in {ParseURL(downloads[i]).ok} :
      \E c \in IF parses THEN {0} \cup StatusCodes ELSE {0} :
        /\ status' = [status EXCEPT ![i] = c]
        /\ IF GetFailed(c)
           THEN /\ Exit(2, Err("panic", downloads[i], "", 0), <<>>)
                /\ UNCHANGED <<fpc, stream, gerr, cancelled, failures>>
           ELSE /\ stream' = [stream EXCEPT ![i] = "open"]
                /\ UNCHANGED <<mpc, exit>>
                /\ IF StatusFails(c)
                   THEN /\ fpc' = [fpc EXCEPT ![i] = "done"]
                        /\ GoReturn(Err("status", downloads[i], "", c))
                   ELSE /\ fpc' = [fpc EXCEPT ![i] = "select"]
                        /\ UNCHANGED <<gerr, cancelled, failures>>
    /\ UNCHANGED <<cfgVars, todo, downloads, wpc, item, wurl, fh, wfail, made, fsVars, scrapes,
                   rets, urlsRes, scrapeCall>>

\* The tasks given ctx (never cancelled) for gctx.
Done_Never == FALSE

\* <-ctx.Done() of the two selects can be taken: the tasks are given gctx.
Done == cancelled

\* A dc case that can be taken whether gctx is done or not.
CanHandOff_Always == TRUE

\* The select of both goroutine kinds can take the dc case: gctx is not done.
CanHandOff == ~Done

\* A fetcher that goes back to its select after the send.
AfterSend_Again == "select"

\* What the fetcher is after its send on dc: it returns nil.
AfterSend == "done"

(* The dc cases of the two selects, lines 72 and 83: dc has no buffer, so   *)
(* fetcher i's send and writer w's receive are one step.  Once Done() is    *)
(* closed every select takes its Done case: a goroutine parked in a select  *)
(* is woken by the close, and one arriving later finds no partner parked.   *)
HandOff(i, w) ==
    /\ mpc = "wait"
    /\ fpc[i] = "select"
    /\ wpc[w] = "select"
    /\ CanHandOff
    /\ fpc' = [fpc EXCEPT ![i] = AfterSend]
    /\ wpc' = [wpc EXCEPT ![w] = "mkdir"]
    /\ item' = [item EXCEPT ![w] = [Content |-> i, Location |-> downloads[i]]]
    /\ GoReturn(Nil)
    /\ UNCHANGED <<cfgVars, wurl, mpc, exit, todo, downloads, stream, fh, status, wfail, made,
                   fsVars, scrapes, rets, urlsRes, scrapeCall>>

\* contentFetcher, lines 70-71: the Done case of the select.
FetcherCancelled(i) ==
    /\ mpc = "wait"
    /\ fpc[i] = "select"
    /\ Done
    /\ fpc' = [fpc EXCEPT ![i] = "done"]
    /\ GoReturn(Nil)
    /\ UNCHANGED <<cfgVars, mpc, exit, todo, downloads, wpc, item, wurl, stream, fh, status,
                   wfail, made, fsVars, scrapes, rets, urlsRes, scrapeCall>>

\* contentWriter, lines 81-82: the Done case of the select.
WriterCancelled(w) ==
    /\ mpc = "wait"
    /\ wpc[w] = "select"
    /\ Done
    /\ wpc' = [wpc EXCEPT ![w] = "done"]
    /\ GoReturn(Nil)
    /\ UNCHANGED <<cfgVars, mpc, exit, todo, downloads, fpc, item, wurl, stream, fh, status,
                   wfail, made, fsVars, scrapes, rets, urlsRes, scrapeCall>>

\* A writer that takes the link of its own loop iteration, not the item's.
WriterLocation_OwnLink(w) == downloads[w]

\* The location a writer derives its local path from.
WriterLocation(w) == item[w].Location

\* The path as parsed, with its leading "/".
WriterPath_Unsliced(w) == wurl[w].Path

\* u.Path[1:] of the URL the writer has parsed.
WriterPath(w) == SliceFrom(wurl[w].Path, 1)

\* A return without the deferred calls: the file and the Content stay as they are.
WriterReturn_NoClose(w, e, op) ==
    /\ wpc' = [wpc EXCEPT ![w] = "done"]
    /\ UNCHANGED <<stream, fh>>
    /\ wfail' = [wfail EXCEPT ![w] = op]
    /\ GoReturn(e)

(* A writer that has received returns e: the deferred calls close the file  *)
(* (if it was created) and the item's Content.                              *)
WriterReturn(w, e, op) ==
    /\ wpc' = [wpc EXCEPT ![w] = "done"]
    /\ stream' = [stream EXCEPT ![item[w].Content] = "closed"]
    /\ fh' = [fh EXCEPT ![w] = IF @ = "open" THEN "closed" ELSE @]
    /\ wfail' = [wfail EXCEPT ![w] = op]
    /\ GoReturn(e)

\* contentWriter, lines 86-92: url.Parse of the location, os.MkdirAll of the directory.
WriterMkdir(w) ==
    /\ mpc = "wait"
    /\ wpc[w] = "mkdir"
    /\ \E u \in {ParseURL(WriterLocation(w))} :
        /\ wurl' = [wurl EXCEPT ![w] = u]
        /\ IF ~u.ok
           THEN /\ WriterReturn(w, Wrap(Err("parse", WriterLocation(w), "", 0), "parsing url"), "parse")
                /\ UNCHANGED dirs
           ELSE \E d \in {Dir(SliceFrom(u.Path, 1))}, ok \in BOOLEAN :
                IF ok
                THEN /\ dirs' = dirs \cup {d}
                     /\ wpc' = [wpc EXCEPT ![w] = "create"]
                     /\ UNCHANGED <<stream, fh, wfail, gerr, cancelled, failures>>
                ELSE /\ WriterReturn(w, Wrap(Err("mkdir", d, "", 0), "making directory"), "mkdir")
                     /\ UNCHANGED dirs
    /\ UNCHANGED <<cfgVars, mpc, exit, todo, downloads, fpc, item, status, made, files,
                   scrapes, rets, urlsRes, scrapeCall>>

\* contentWriter, lines 93-97: os.Create makes or truncates the file; no file has the empty name.
WriterCreate(w) ==
    /\ mpc = "wait"
    /\ wpc[w] = "create"
    /\ \E ok \in BOOLEAN :
        IF ok /\ WriterPath(w) # <<>>
        THEN /\ files' = (WriterPath(w) :> Empty) @@ files
             /\ made' = made \cup {WriterPath(w)}
             /\ fh' = [fh EXCEPT ![w] = "open"]
             /\ wpc' = [wpc EXCEPT ![w] = "copy"]
             /\ UNCHANGED <<stream, wfail, gerr, cancelled, failures>>
        ELSE /\ WriterReturn(w, Wrap(Err("open", WriterPath(w), "", 0), "creating file"), "create")
             /\ UNCHANGED <<files, made>>
    /\ UNCHANGED <<cfgVars, mpc, exit, todo, downloads, fpc, item, wurl, status, dirs, scrapes,
                   rets, urlsRes, scrapeCall>>

\* contentWriter, lines 101-106: io.Copy of the Content into the file, and the return.
WriterCopy(w) ==
    /\ mpc = "wait"
    /\ wpc[w] = "copy"
    /\ \E ok \in BOOLEAN :
        IF ok
        THEN /\ files' = (WriterPath(w) :> Body(downloads[item[w].Content])) @@ files
             /\ WriterReturn(w, Nil, "")
        ELSE /\ \E c \in {files[WriterPath(w)], Partial(downloads[item[w].Content])} :
                    files' = (WriterPath(w) :> c) @@ files
             /\ WriterReturn(w, Wrap(Err("write", WriterPath(w), "", 0), "writing file"), "copy")
    /\ UNCHANGED <<cfgVars, mpc, exit, todo, downloads, fpc, item, wurl, status, made, dirs,
                   scrapes, rets, urlsRes, scrapeCall>>

FetcherGets == \E i \in 1..N : FetcherGet(i)
HandOffs == \E i \in 1..N, w \in 1..N : HandOff(i, w)
FetcherCancels == \E i \in 1..N : FetcherCancelled(i)
WriterCancels == \E w \in 1..N : WriterCancelled(w)
WriterMkdirs == \E w \in 1..N : WriterMkdir(w)
WriterCreates == \E w \in 1..N : WriterCreate(w)
WriterCopies == \E w \in 1..N : WriterCopy(w)

Next ==
    \/ Main
    \/ list
    \/ download
    \/ downloadReturn
    \/ Scrape(SpecAnchors, MaxLinks)
    \/ fetch
    \/ FetcherGets
    \/ HandOffs
    \/ FetcherCancels
    \/ WriterCancels
    \/ WriterMkdirs
    \/ WriterCreates
    \/ WriterCopies
    \/ Wait

Spec == Init /\ [][Next]_vars

----------------------------------------------------------------------------
(* SpecFetch: the program from the return of a scrape call on, for every    *)
(* list of at most MaxFetch links that scrape can return.                   *)

FetchLists ==
    UNION {Orderings(S) : S \in {T \in SUBSET FetchLinks : Cardinality(T) <= MaxFetch}}
    \cup Orderings(CollidingLinks)

InitFetch ==
    /\ Samples \in SpecCatalogs
    /\ Era = "pre"
    /\ Section = "brass"
    /\ Download = TRUE
    /\ mpc = "fetch"
    /\ exit = Running
    /\ todo = <<SeedP>>
    /\ downloads \in FetchLists
    /\ fpc = <<>>
    /\ wpc = <<>>
    /\ item = <<>>
    /\ wurl = <<>>
    /\ cancelled = FALSE
    /\ gerr = Nil
    /\ stream = <<>>
    /\ fh = <<>>
    /\ files = <<>>
    /\ dirs = {}
    /\ status = <<>>
    /\ wfail = <<>>
    /\ failures = <<>>
    /\ made = {}
    /\ scrapes = <<[seed |-> SeedP, status |-> 200, err |-> Nil]>>
    /\ rets = <<>>
    /\ urlsRes = [out |-> <<SeedP>>, err |-> Nil]
    /\ scrapeCall = NoCall

NextFetch ==
    \/ fetch
    \/ FetcherGets
    \/ HandOffs
    \/ FetcherCancels
    \/ WriterCancels
    \/ WriterMkdirs
    \/ WriterCreates
    \/ WriterCopies
    \/ Wait
    \/ downloadReturn

SpecFetch == InitFetch /\ [][NextFetch]_vars

\* The Go scheduler runs every goroutine that can take a step.
LiveFetch == SpecFetch /\ WF_vars(NextFetch)

----------------------------------------------------------------------------
(* SpecUrls: one call of urls() on an App of any catalog, era and section.  *)

UrlsLists == SeqsUpTo({SeedP, SeedQ}, MaxPerSection)

SectionMaps(names) ==
    UNION {[D -> UrlsLists] : D \in SUBSET names}

UrlsCatalogs ==
    {<<>>}
    \cup {("pre" :> a) : a \in SectionMaps({"brass", "strings"})}
    \cup {("post" :> b) : b \in SectionMaps({"brass"})}
    \cup {("pre" :> a) @@ ("post" :> b) :
              a \in SectionMaps({"brass", "strings"}), b \in SectionMaps({"brass"})}

InitUrls ==
    /\ Samples \in UrlsCatalogs
    /\ Era \in {"all", "pre", "post", "bogus"}
    /\ Section \in {"", "brass", "strings", "bogus"}
    /\ Download = FALSE
    /\ mpc = "urls"
    /\ scrapeCall = NoCall
    /\ InitRest

urlsCall ==
    /\ mpc = "urls"
    /\ mpc' = "returned"
    /\ urlsRes' \in urls(Samples, Era, Section)
    /\ UNCHANGED <<cfgVars, exit, todo, groupVars, fsVars, scrapes, rets, scrapeCall>>

NextUrls == urlsCall

SpecUrls == InitUrls /\ [][NextUrls]_vars

----------------------------------------------------------------------------
(* SpecScrape: one call of scrape() on any seed URL and any answer.         *)

InitScrape ==
    /\ Samples \in SpecCatalogs
    /\ Era = "all"
    /\ Section = ""
    /\ Download = TRUE
    /\ mpc = "scrape"
    /\ \E u \in {SeedP, SeedR}, resp \in Responses(ScrapeAnchors, MaxAnchors) :
            scrapeCall = [url |-> u, resp |-> resp, res |-> NoRes]
    /\ InitRest

scrapeOnly ==
    /\ mpc = "scrape"
    /\ mpc' = "returned"
    /\ \E r \in scrape(scrapeCall.url, scrapeCall.resp) :
            scrapeCall' = [scrapeCall EXCEPT !.res = r]
    /\ UNCHANGED <<cfgVars, exit, todo, groupVars, fsVars, scrapes, rets, urlsRes>>

NextScrape == scrapeOnly

SpecScrape == InitScrape /\ [][NextScrape]_vars

----------------------------------------------------------------------------
(* The claims about fetch, checked under SpecFetch (one fetch call).        *)

Returned == rets # <<>>
Ret == rets[Len(rets)]

Fetchers == DOMAIN fpc
Writers == DOMAIN wpc

GetSucceeded(i) == status[i] # 0 /\ status[i] < 300
GetRefused(i) == status[i] >= 300

DistinctLocalPaths ==
    \A i, j \in Fetchers : i # j => LocalPath(downloads[i]) # LocalPath(downloads[j])

\* C1: if every GET succeeds and no writer operation fails, on links with
\* pairwise distinct local paths, then fetch returns nil and at its return
\* exactly N files exist, each at the local path of the link its item carried
\* and holding the body served for that link, whichever writer wrote it.
C1_AllFilesWritten ==
    (/\ Returned
     /\ DistinctLocalPaths
     /\ \A i \in Fetchers : GetSucceeded(i)
     /\ \A w \in Writers : wfail[w] = "")
    => /\ Ret = Nil
       /\ DOMAIN files = {LocalPath(downloads[i]) : i \in Fetchers}
       /\ made = DOMAIN files
       /\ Cardinality(DOMAIN files) = N
       /\ \A i \in Fetchers : files[LocalPath(downloads[i])] = Body(downloads[i])
       /\ \A w \in Writers :
            /\ item[w] # NoItem
            /\ files[LocalPath(item[w].Location)] = Body(item[w].Location)

\* C1's case: two links, fetched and written crosswise (writer 1 wrote fetcher 2's item).
C1_Witness ==
    /\ Returned
    /\ N = 2
    /\ DistinctLocalPaths
    /\ \A i \in Fetchers : GetSucceeded(i)
    /\ \A w \in Writers : wfail[w] = ""
    /\ item[1].Content = 2
    /\ Ret = Nil

\* C2: if exactly one fetcher's GET is answered with a status >= 300 and no
\* writer operation fails, fetch returns that fetcher's error; between 0 and
\* N-1 files have been written.
C2_OneRefusedGet ==
    (/\ Returned
     /\ Cardinality({i \in Fetchers : GetRefused(i)}) = 1
     /\ \A w \in Writers : wfail[w] = "")
    => /\ \E i \in Fetchers :
            /\ GetRefused(i)
            /\ Ret = Err("status", downloads[i], "", status[i])
       /\ Cardinality(made) <= N - 1
       /\ \A p \in made : \E i \in Fetchers : GetSucceeded(i) /\ files[p] = Body(downloads[i])

\* C2's case: of two links one GET is refused with 300, the other link's file is written.
C2_Witness ==
    /\ Returned
    /\ N = 2
    /\ Cardinality({i \in Fetchers : GetRefused(i)}) = 1
    /\ \E i \in Fetchers : status[i] = 300
    /\ \A w \in Writers : wfail[w] = ""
    /\ Cardinality(made) = 1
    /\ Ret # Nil

\* C2, the other end of the range: the GET is refused and no file at all is written.
C2_WitnessNoFile ==
    /\ Returned
    /\ N = 2
    /\ Cardinality({i \in Fetchers : GetRefused(i)}) = 1
    /\ \A w \in Writers : wfail[w] = ""
    /\ made = {}

FirstFailure == IF failures = <<>> THEN Nil ELSE failures[1]

\* The tasks that failed of themselves: a refused GET, a failed writer operation.
OwnFailures ==
    Cardinality({i \in Fetchers : GetRefused(i)}) + Cardinality({w \in Writers : wfail[w] # ""})

\* C3 as stated: the cancellation signal is set if and only if some fetcher or
\* writer has returned an error, and fetch returns the error of the task that
\* failed first (tasks ended by the cancellation return nil).
C3_SignalIffFailure ==
    /\ cancelled <=> failures # <<>>
    /\ gerr = FirstFailure
    /\ Len(failures) = OwnFailures
    /\ Returned => Ret = FirstFailure

\* C3 as amended: until g.Wait() returns the signal is set if and only if some
\* fetcher or writer has returned an error; the return of g.Wait() sets it
\* too, error or not.  fetch returns the error of the task that failed first,
\* and only the tasks that failed of themselves return an error.
C3_SignalIffFailureUntilReturn ==
    /\ ~Returned => (cancelled <=> failures # <<>>)
    /\ Returned => cancelled
    /\ failures # <<>> => cancelled
    /\ gerr = FirstFailure
    /\ Len(failures) = OwnFailures
    /\ Returned => Ret = FirstFailure

\* C3's case: two tasks failed, one after the other, and fetch has returned the first error.
C3_Witness ==
    /\ Returned
    /\ Len(failures) = 2
    /\ failures[1] # failures[2]
    /\ Ret = failures[1]

\* C4: when fetch has returned, nil or an error, every fetcher and writer it
\* started has ended: none is at its GET, at the handoff or writing a file.
C4_AllTasksEnded ==
    Returned =>
        /\ \A i \in Fetchers : fpc[i] = "done"
        /\ \A w \in Writers : wpc[w] = "done" /\ fh[w] # "open"

\* C4's case: fetch has returned an error, one writer wrote its file and one was cancelled.
C4_Witness ==
    /\ Returned
    /\ Ret # Nil
    /\ N = 2
    /\ \E w \in Writers : item[w] # NoItem /\ wfail[w] = ""
    /\ \E w \in Writers : item[w] = NoItem

\* C5: under weak fairness fetch returns, whatever fails, unless a GET's
\* transport error has ended the process (exit code 2).
C5_FetchReturns == <>(Returned \/ exit.code = 2)

\* C5's case: a GET was refused, fewer than N items were delivered, and fetch has returned.
C5_Witness ==
    /\ Returned
    /\ N = 2
    /\ \E i \in Fetchers : GetRefused(i)
    /\ \E i \in Fetchers : GetSucceeded(i) /\ \A w \in Writers : item[w].Content # i
    /\ \A w \in Writers : item[w] = NoItem

C6_OneHolder ==
    /\ \A w \in Writers :
        item[w] # NoItem =>
            /\ item[w].Content \in Fetchers
            /\ item[w].Location = downloads[item[w].Content]
            /\ fpc[item[w].Content] = "done"
            /\ GetSucceeded(item[w].Content)
    /\ \A v, w \in Writers :
        (v # w /\ item[v] # NoItem /\ item[w] # NoItem) => item[v].Content # item[w].Content
    /\ \A i \in Fetchers :
        fpc[i] \in {"get", "select"} => \A w \in Writers : item[w].Content # i

C6_ReceivedOnce ==
    \A w \in DOMAIN item : item[w] # NoItem => item'[w] = item[w]

\* C6: every item is held by one stage: an item a writer holds came from a
\* fetcher that has ended, no two writers hold the same item, a fetcher still
\* at its GET or its select has delivered nothing, and a writer that has
\* received an item keeps it and receives no other.
C6_ItemHeldOnce == []C6_OneHolder /\ [][C6_ReceivedOnce]_vars

\* C6's case: both items have been handed off, crosswise, and both writers are at work.
C6_Witness ==
    /\ Cardinality(Writers) = 2
    /\ item[1].Content = 2
    /\ item[2].Content = 1
    /\ wpc[1] # "done"
    /\ wpc[2] # "done"

----------------------------------------------------------------------------
(* The claims about download and scrape, checked under Spec.                *)

C7_InSequence ==
    /\ Len(rets) <= Len(scrapes)
    /\ Len(scrapes) <= Len(rets) + 1
    /\ Len(scrapes) <= Len(urlsRes.out)
    /\ \A k \in 1..Len(scrapes) : scrapes[k].seed = urlsRes.out[k]
    /\ \A k \in 1..(Len(scrapes) - 1) : scrapes[k].err = Nil /\ rets[k] = Nil
    /\ (scrapes # <<>> /\ scrapes[Len(scrapes)].err # Nil) =>
            /\ mpc = "exit"
            /\ exit.code = 1
            /\ exit.err = Wrap(scrapes[Len(scrapes)].err, "scraping audio file URL's")
            /\ Len(rets) = Len(scrapes) - 1
    /\ (rets # <<>> /\ Ret # Nil) =>
            /\ mpc = "exit"
            /\ exit.code = 1
            /\ exit.err = Wrap(Ret, "fetching audio files")
            /\ Len(rets) = Len(scrapes)
    /\ (mpc = "exit" /\ exit.code = 0 /\ Download) =>
            /\ Len(scrapes) = Len(urlsRes.out)
            /\ Len(rets) = Len(scrapes)

C7_ScrapeAfterTasks ==
    Len(scrapes') > Len(scrapes) =>
        /\ Len(rets) = Len(scrapes)
        /\ \A i \in Fetchers : fpc[i] = "done"
        /\ \A w \in Writers : wpc[w] = "done"

\* C7: download takes the seed URLs one after another, in the order urls()
\* gave them: a seed URL is scraped only when every fetcher and writer of the
\* seed URL before it has ended and its fetch has returned nil; at the first
\* scrape or fetch error download returns that error, wrapped, and no later
\* seed URL is scraped or fetched.
C7_OneSeedAtATime == []C7_InSequence /\ [][C7_ScrapeAfterTasks]_vars

\* C7's case: of two seed URLs the first one's fetch failed and the second was never scraped.
C7_Witness ==
    /\ Len(urlsRes.out) = 2
    /\ Len(scrapes) = 1
    /\ Returned
    /\ Ret # Nil
    /\ mpc = "exit"
    /\ Cardinality(Fetchers) = 2

\* C7's other case: the second seed URL's tasks run after the first one's fetch returned nil.
C7_WitnessSecondSeed ==
    /\ Len(scrapes) = 2
    /\ Len(rets) = 1
    /\ mpc = "wait"
    /\ \E w \in Writers : wpc[w] = "copy"

\* C8: a seed URL's GET that is answered with a status >= 300 makes scrape
\* return an error, so that download ends with it.
C8_ScrapeRejectsStatus ==
    \A k \in 1..Len(scrapes) : scrapes[k].status >= 300 => scrapes[k].err # Nil

\* C8's case on the code: the seed page was answered with 404, scrape returned
\* links all the same and their fetch is under way.
C8_StatusIgnored ==
    /\ scrapes # <<>>
    /\ scrapes[Len(scrapes)].status = 404
    /\ scrapes[Len(scrapes)].err = Nil
    /\ mpc = "wait"
    /\ N = 2

----------------------------------------------------------------------------
(* The claim about scrape's result, checked under SpecScrape.               *)

C9_Hrefs(page) ==
    UNION {{page[a][b].Val : b \in {c \in DOMAIN page[a] : page[a][c].Key = "href"}} :
               a \in DOMAIN page}

C9_EndsIn(h, suffix) ==
    /\ Len(h) >= Len(suffix)
    /\ \A k \in 1..Len(suffix) : h[Len(h) - Len(suffix) + k] = suffix[k]

C9_Audio(h) ==
    \/ C9_EndsIn(h, <<".", "a", "i", "f">>)
    \/ C9_EndsIn(h, <<".", "a", "i", "f", "f">>)
    \/ C9_EndsIn(h, <<".", "w", "a", "v">>)

C9_Strip(h) ==
    IF Len(h) >= 3 /\ h[1] = "." /\ h[2] = "." /\ h[3] = "/" THEN SubSeq(h, 4, Len(h)) ELSE h

C9_Expected ==
    {SchemeHTTP \o ParseURL(scrapeCall.url).Host \o <<"/">> \o C9_Strip(h) :
        h \in {g \in C9_Hrefs(scrapeCall.resp.page) : C9_Audio(g)}}

\* C9: for a page that was fetched and parsed, scrape returns exactly the URLs
\* "http://" + host(seed) + "/" + strip(h), h an anchor's href that ends in
\* .aif, .aiff or .wav (strip takes one leading "../" away), each of them once.
C9_ScrapeResult ==
    (mpc = "returned" /\ ~scrapeCall.resp.transport /\ ~scrapeCall.resp.readerr) =>
        /\ scrapeCall.res.err = Nil
        /\ {scrapeCall.res.out[k] : k \in 1..Len(scrapeCall.res.out)} = C9_Expected
        /\ Len(scrapeCall.res.out) = Cardinality(C9_Expected)

\* C9's case: h and "../" + h are both on the page, and one URL is returned.
C9_Witness ==
    /\ mpc = "returned"
    /\ scrapeCall.resp.page = <<Href(Str_a_wav), Href(Str_up_a_wav)>>
    /\ scrapeCall.res.out = <<SchemeHTTP \o <<"h", "/">> \o Str_a_wav>>

\* C9's other case: of "../../a.wav" one "../" is left, a .txt and a .AIF are left out.
C9_WitnessOneStrip ==
    /\ mpc = "returned"
    /\ scrapeCall.resp.page = <<Href(DotDotSlash \o Str_up_a_wav), Href(<<"d", ".", "A", "I", "F">>)>>
    /\ scrapeCall.res.out = <<SchemeHTTP \o <<"h", "/">> \o Str_up_a_wav>>

----------------------------------------------------------------------------
(* The claim about urls()'s result, checked under SpecUrls.                 *)

C10_Count(seq, u) == Cardinality({k \in DOMAIN seq : seq[k] = u})

\* The places of the catalog: <<era, section, index>>.
C10_Places ==
    UNION {UNION {{<<e, sec, k>> : k \in DOMAIN Samples[e][sec]} : sec \in DOMAIN Samples[e]} :
               e \in DOMAIN Samples}

C10_SameBag(out, places) ==
    /\ Len(out) = Cardinality(places)
    /\ \A u \in {Samples[pl[1]][pl[2]][pl[3]] : pl \in C10_Places} \cup {out[k] : k \in DOMAIN out} :
            C10_Count(out, u) = Cardinality({pl \in places : Samples[pl[1]][pl[2]][pl[3]] = u})

C10_NoDuplicates(seq) == \A j, k \in DOMAIN seq : j # k => seq[j] # seq[k]

\* C10: urls() returns, in some order, for a known era and a known section the
\* seed URLs of that section; for a known era and no section those of all the
\* era's sections and of no other era; for era "all" those of every era and
\* section, as many as the section lists hold together, without duplicates if
\* the catalog has none.
C10_Selected ==
    mpc = "returned" =>
        /\ (Era # "all" /\ Era \in DOMAIN Samples /\ Section # ""
                /\ Section \in DOMAIN Samples[Era]) =>
            /\ urlsRes.err = Nil
            /\ C10_SameBag(urlsRes.out, {pl \in C10_Places : pl[1] = Era /\ pl[2] = Section})
        /\ (Era # "all" /\ Era \in DOMAIN Samples /\ Section = "") =>
            /\ urlsRes.err = Nil
            /\ C10_SameBag(urlsRes.out, {pl \in C10_Places : pl[1] = Era})
        /\ Era = "all" =>
            /\ urlsRes.err = Nil
            /\ C10_SameBag(urlsRes.out, C10_Places)
            /\ (\A p, q \in C10_Places :
                    p # q => Samples[p[1]][p[2]][p[3]] # Samples[q[1]][q[2]][q[3]])
                => C10_NoDuplicates(urlsRes.out)

\* C10's case: era "all" on a catalog of two eras and three sections, one of them of two URLs.
C10_Witness ==
    /\ mpc = "returned"
    /\ Era = "all"
    /\ DOMAIN Samples = {"pre", "post"}
    /\ DOMAIN Samples["pre"] = {"brass", "strings"}
    /\ Len(Samples["pre"]["brass"]) = 2
    /\ Len(urlsRes.out) = 4

----------------------------------------------------------------------------
(* The claim about urls()'s errors, checked under SpecUrls.                 *)

C11_UnknownEra == Era # "all" /\ Era \notin DOMAIN Samples

C11_UnknownSection ==
    /\ Era # "all"
    /\ Era \in DOMAIN Samples
    /\ Section # ""
    /\ Section \notin DOMAIN Samples[Era]

\* C11: urls() returns the error "unsupported era: " + era exactly when the
\* era is neither "all" nor a key of the catalog, the error "unsupported
\* section: " + section exactly when the era is a key and the section is not
\* empty and not a key under it, and no other error; with era "all" it never
\* fails and returns what it returns for the empty section; with an error it
\* returns no seed URL.
C11_UrlsErrors ==
    mpc = "returned" =>
        /\ (urlsRes.err.msg = "unsupported era: ") <=> C11_UnknownEra
        /\ C11_UnknownEra => urlsRes.err = Err("unsupported era: ", <<>>, Era, 0)
        /\ (urlsRes.err.msg = "unsupported section: ") <=> C11_UnknownSection
        /\ C11_UnknownSection => urlsRes.err = Err("unsupported section: ", <<>>, Section, 0)
        /\ (~C11_UnknownEra /\ ~C11_UnknownSection) => urlsRes.err = Nil
        /\ Era = "all" => urlsRes.err = Nil /\ urlsRes \in urls(Samples, "all", "")
        /\ urlsRes.err # Nil => urlsRes.out = <<>>

\* C11's case: a section that the known era does not have, though another era has it.
C11_Witness ==
    /\ mpc = "returned"
    /\ Era = "post"
    /\ Section = "strings"
    /\ DOMAIN Samples = {"pre", "post"}
    /\ "strings" \in DOMAIN Samples["pre"]
    /\ urlsRes.err.name = "strings"
    /\ urlsRes.out = <<>>

\* C11's other case: era "all" with a section no era has, and seed URLs returned.
C11_WitnessAll ==
    /\ mpc = "returned"
    /\ Era = "all"
    /\ Section = "bogus"
    /\ urlsRes.err = Nil
    /\ Len(urlsRes.out) >= 2

----------------------------------------------------------------------------
(* The claim about the local paths of one scrape call's links.  The list is *)
(* checked under SpecScrape; what becomes of it in fetch, under SpecFetch.  *)

\* C12: the links one scrape call returns, pairwise distinct as strings, have
\* pairwise distinct local paths (so that no two writers of the following
\* fetch call create or write the same file).
C12_LocalPathsDistinct ==
    (mpc = "returned" /\ scrapeCall.res.err = Nil) =>
        \A j, k \in 1..Len(scrapeCall.res.out) :
            j # k => LocalPath(scrapeCall.res.out[j]) # LocalPath(scrapeCall.res.out[k])

\* C12's case on the code: scrape has returned two different links whose
\* URLs parse, with one and the same local path.
C12_SameLocalPath ==
    /\ mpc = "returned"
    /\ scrapeCall.res.err = Nil
    /\ Len(scrapeCall.res.out) = 2
    /\ scrapeCall.res.out[1] # scrapeCall.res.out[2]
    /\ ParseURL(scrapeCall.res.out[1]).ok
    /\ ParseURL(scrapeCall.res.out[2]).ok
    /\ LocalPath(scrapeCall.res.out[1]) = LocalPath(scrapeCall.res.out[2])

\* What follows in fetch: two writers have created the same file and both are to copy into it.
C12_TwoWritersOneFile ==
    \E w, v \in Writers :
        /\ w # v
        /\ wpc[w] = "copy"
        /\ wpc[v] = "copy"
        /\ downloads[item[w].Content] # downloads[item[v].Content]
        /\ WriterPath(w) = WriterPath(v)

----------------------------------------------------------------------------
(* The claims about the streams, the files and the handoff of one fetch     *)
(* call, checked under SpecFetch.                                           *)

\* C13: when fetch has returned, every response stream that a fetcher's GET
\* obtained in the call has been closed.
C13_StreamsClosed ==
    Returned => \A i \in Fetchers : status[i] # 0 => stream[i] = "closed"

\* C13's case on the code: fetch has returned, and the stream of a GET that
\* succeeded is open: its fetcher left the select by Done() and returned nil.
C13_StreamLeftOpen ==
    /\ Returned
    /\ \E i \in Fetchers :
        /\ GetSucceeded(i)
        /\ fpc[i] = "done"
        /\ stream[i] = "open"
        /\ \A w \in Writers : item[w].Content # i

----------------------------------------------------------------------------
(* The claims about a GET without response and about unsupported flags,     *)
(* checked under Spec.                                                      *)

C14_Panicked == mpc = "exit" /\ exit.code = 2

C14_NeverReturned ==
    /\ \A k \in 1..Len(rets) : rets[k].msg # "panic"
    /\ \A k \in 1..Len(failures) : failures[k].msg # "panic"
    /\ gerr.msg # "panic"
    /\ \A i \in Fetchers : fpc[i] # "get" => status[i] # 0
    /\ C14_Panicked =>
        /\ exit.err.msg = "panic"
        /\ \E i \in Fetchers : fpc[i] = "get" /\ exit.err.url = downloads[i]
        /\ Len(rets) = Len(scrapes) - 1

C14_PanicStep ==
    /\ ~C14_Panicked
    /\ (exit'.code = 2) =>
        /\ mpc = "wait"
        /\ cancelled' = cancelled
        /\ gerr' = gerr
        /\ failures' = failures
        /\ rets' = rets
        /\ scrapes' = scrapes
        /\ fpc' = fpc
        /\ wpc' = wpc

\* C14: a GET of a fetcher that ends with a transport error is never an error
\* returned by a task or by fetch: it ends the process then and there (exit
\* status 2), with the cancellation signal and the group's error as they were,
\* the fetch call not returned, and no step of the program after it: no task
\* goes on, no later seed URL is scraped or fetched.
C14_TransportErrorEndsProcess == []C14_NeverReturned /\ [][C14_PanicStep]_vars

\* C14's case: the process has ended by a fetcher's panic while a writer was
\* copying, the first of two seed URLs being fetched and no signal set.
C14_Witness ==
    /\ C14_Panicked
    /\ Len(todo) = 2
    /\ Len(scrapes) = 1
    /\ rets = <<>>
    /\ ~cancelled
    /\ \E w \in Writers : wpc[w] = "copy"


C15_Unsupported == C11_UnknownEra \/ C11_UnknownSection

C15_NothingDone ==
    C15_Unsupported =>
        /\ mpc \in {"main", "exit"}
        /\ urlsRes = NoRes
        /\ scrapes = <<>>
        /\ Fetchers = {}
        /\ status = <<>>
        /\ files = <<>>
        /\ exit.stdout = <<>>
        /\ mpc = "exit" =>
            /\ exit.code = 1
            /\ exit.err = Wrap(Err(IF C11_UnknownEra THEN "unsupported era: "
                                                     ELSE "unsupported section: ",
                                   <<>>, IF C11_UnknownEra THEN Era ELSE Section, 0),
                               "parsing config")

C15_ExitFromMain == (C15_Unsupported /\ mpc = "main") => mpc' = "exit"

\* C15: with an era that is neither "all" nor in the catalog, or a section
\* that its (known) era does not have, the program never gets to Run: its
\* one step is main's exit with status 1 and the NewConfig error, with no GET
\* of a seed page or of an audio link issued and nothing listed.
C15_ConfigErrorFirst == []C15_NothingDone /\ [][C15_ExitFromMain]_vars

\* C15's case: a download run with a section the era "pre" does not have has exited.
C15_Witness ==
    /\ Era = "pre"
    /\ Section = "bogus"
    /\ Download
    /\ mpc = "exit"
    /\ exit.code = 1
    /\ exit.err.name = "bogus"

\* The case C15 leaves out: era "all" is never checked against the section,
\* and a run with a section no era has scrapes and fetches.
C15_WitnessAllNotChecked ==
    /\ Era = "all"
    /\ Section = "bogus"
    /\ mpc = "wait"

----------------------------------------------------------------------------
(* More claims about one fetch call, checked under SpecFetch.               *)

\* The path component of "http://authority/path?query#fragment", from the text of the URL.
C16_PathOf(link) ==
    LET first == CHOOSE k \in 8..Len(link) :
                    link[k] = "/" /\ \A j \in 8..(k - 1) : link[j] # "/"
        ends == {k \in first..Len(link) : link[k] \in {"?", "#"}}
        last == IF ends = {} THEN Len(link)
                ELSE (CHOOSE k \in ends : \A j \in ends : k <= j) - 1
    IN  SubSeq(link, first, last)

C16_Parsed(w) == wpc[w] \in {"create", "copy", "done"} /\ wurl[w].ok

C17_Received(w) == item[w] # NoItem

\* C17: a writer that has received an item and has ended, by a failure of
\* MkdirAll, Create or Copy or by success, has closed the item's stream, and
\* has closed the file exactly if Create had made it; until it ends the stream
\* is open, and so is the file once made.  A writer that has ended without an
\* item has no file, and no stream is closed but by the writer that holds it.
C17_WriterCloses ==
    /\ \A w \in Writers :
        /\ (wpc[w] = "done" /\ C17_Received(w)) =>
            /\ stream[item[w].Content] = "closed"
            /\ fh[w] = (IF wfail[w] \in {"", "copy"} THEN "closed" ELSE "none")
        /\ (wpc[w] \in {"mkdir", "create", "copy"}) =>
            /\ C17_Received(w)
            /\ stream[item[w].Content] = "open"
            /\ fh[w] = (IF wpc[w] = "copy" THEN "open" ELSE "none")
        /\ ~C17_Received(w) =>
            /\ wpc[w] \in {"select", "done"}
            /\ fh[w] = "none"
            /\ wfail[w] = ""
    /\ \A i \in Fetchers :
        stream[i] = "closed" => \E w \in Writers : wpc[w] = "done" /\ item[w].Content = i

\* C17's case: one writer has ended by a failed copy, its file and stream
\* closed; the other has ended by cancellation with no item and no file.
C17_Witness ==
    /\ Cardinality(Writers) = 2
    /\ \E w, v \in Writers :
        /\ wpc[w] = "done"
        /\ wfail[w] = "copy"
        /\ fh[w] = "closed"
        /\ stream[item[w].Content] = "closed"
        /\ wpc[v] = "done"
        /\ ~C17_Received(v)
        /\ fh[v] = "none"

\* C17's other exit paths: a writer has ended by a failed Create, another by a failed MkdirAll.
C17_WitnessNoFile ==
    /\ Cardinality(Writers) = 2
    /\ \E w, v \in Writers :
        /\ wpc[w] = "done"
        /\ wfail[w] = "create"
        /\ wpc[v] = "done"
        /\ wfail[v] = "mkdir"
        /\ stream[item[v].Content] = "closed"


C18_NoHandOffStep ==
    cancelled =>
        /\ item' = item
        /\ \A i \in Fetchers :
            (fpc[i] = "select" /\ fpc'[i] # "select") =>
                /\ fpc'[i] = "done"
                /\ failures' = failures
                /\ gerr' = gerr
        /\ \A w \in Writers :
            (wpc[w] = "select" /\ wpc'[w] # "select") =>
                /\ wpc'[w] = "done"
                /\ failures' = failures
                /\ gerr' = gerr
                /\ files' = files
                /\ made' = made
                /\ fh' = fh

C18_FilesOfReceivers ==
    /\ made \subseteq {LocalPath(item[w].Location) : w \in {v \in Writers : C17_Received(v)}}
    /\ \A w \in Writers : ~C17_Received(w) => fh[w] = "none"

\* C18: once the cancellation signal is set no item goes from a fetcher to a
\* writer: a fetcher that leaves its select then returns nil with its item
\* undelivered, a writer that leaves its select then returns nil with no item
\* and makes no file; the files made are those of writers that hold an item.
C18_NoHandOffAfterCancel == []C18_FilesOfReceivers /\ [][C18_NoHandOffStep]_vars

\* C18's case: with the signal set, a fetcher whose GET succeeded has ended
\* with its item undelivered and a writer has ended with no item, after the
\* other writer, which had received, failed in MkdirAll and set the signal.
C18_Witness ==
    /\ cancelled
    /\ ~Returned
    /\ \E i \in Fetchers :
        /\ GetSucceeded(i)
        /\ fpc[i] = "done"
        /\ \A w \in Writers : item[w].Content # i
    /\ \E w \in Writers : wpc[w] = "done" /\ ~C17_Received(w)
    /\ \E w \in Writers : wpc[w] = "done" /\ C17_Received(w) /\ wfail[w] = "mkdir"
    /\ made = {}


C19_Delivered(i) == \E w \in Writers : item[w].Content = i

C19_Counts ==
    /\ Cardinality(made) <= Cardinality({w \in Writers : C17_Received(w)})
    /\ Cardinality({w \in Writers : C17_Received(w)})
            <= Cardinality({i \in Fetchers : GetSucceeded(i)})
    /\ Cardinality({i \in Fetchers : GetSucceeded(i)}) <= N

C19_PerLink ==
    \/ made = {}
    \/ \A i \in Fetchers :
        /\ LocalPath(downloads[i]) \in made => GetSucceeded(i) /\ C19_Delivered(i)
        /\ GetRefused(i) => LocalPath(downloads[i]) \notin made

C19_FileAtRefusedLinksPath ==
    \E i, j \in Fetchers :
        /\ i # j
        /\ GetRefused(i)
        /\ GetSucceeded(j)
        /\ LocalPath(downloads[i]) = LocalPath(downloads[j])
        /\ LocalPath(downloads[i]) \in made

====
